---------------------------- MODULE Spec2Model ----------------------------
(***************************************************************************)
(* A model of src/services/contributions.ts: the merge of the GitHub and   *)
(* GitLab contribution data, the projection of the merged series into a    *)
(* week-by-day grid, the month labels, the yearly totals and the request   *)
(* that ties them together.                                                *)
(*                                                                         *)
(* Representation.                                                         *)
(*  - A JavaScript Date is modelled by its local calendar day, counted in  *)
(*    days since 1970-01-01.  Every Date the code builds during one call   *)
(*    carries either local midnight (parseISO) or the time of day of `now` *)
(*    (subYears, addDays and setDay keep it), and every comparison in the  *)
(*    code is between two such values, so it is decided by the day.        *)
(*  - A 'yyyy-MM-dd' string is the triple <<y, m, d>>; format and parseISO *)
(*    convert between the day count and the triple.                        *)
(*  - A year string such as '2023' is the number 2023.                     *)
(*  - An optional value (find's undefined) is the empty tuple, a present   *)
(*    one is the one-element tuple.                                        *)
(*  - A JavaScript object is a record; the spread {...a, ...b} is Spread.  *)
(***************************************************************************)
EXTENDS Integers, Sequences, FiniteSets, TLC

VARIABLES
    pc,                   \* position of the call
    now,                  \* new Date(): the local calendar day of the call
    behindUTC,            \* the local time zone has a negative UTC offset
    options,              \* RequestOptions: [fullYear, years]
    githubData,           \* ApiResult fetched from the GitHub calendar service
    gitlabContributions,  \* Record<string, number> fetched from GitLab
    data,                 \* the ApiResult the call works on
    result,               \* the value returned
    error                 \* the Error thrown, "" when none

vars == <<pc, now, behindUTC, options, githubData, gitlabContributions,
          data, result, error>>

-----------------------------------------------------------------------------
(* Bounds of the model. *)

FirstYear == 2017
NumYears == 10
NowSpan == 100
MaxLen == 3
MaxCount == 2
MaxAdd == 2
MaxYears == 2

-----------------------------------------------------------------------------
(* The calendar: days since 1970-01-01 <-> <<year, month, day>>. *)

IsLeap(y) == (y % 4 = 0 /\ y % 100 # 0) \/ y % 400 = 0

DaysInMonth(y, m) ==
    IF m = 2 THEN (IF IsLeap(y) THEN 29 ELSE 28)
    ELSE IF m \in {4, 6, 9, 11} THEN 30 ELSE 31

\* parseISO('yyyy-MM-dd'): local midnight of that calendar day
parseISO(s) ==
    LET y   == IF s[2] <= 2 THEN s[1] - 1 ELSE s[1]
        era == y \div 400
        yoe == y - era * 400
        mp  == IF s[2] > 2 THEN s[2] - 3 ELSE s[2] + 9
        doy == (153 * mp + 2) \div 5 + s[3] - 1
        doe == yoe * 365 + yoe \div 4 - yoe \div 100 + doy
    IN  era * 146097 + doe - 719468

\* format(date, 'yyyy-MM-dd')
format(t) ==
    LET z   == t + 719468
        era == z \div 146097
        doe == z - era * 146097
        yoe == (doe - doe \div 1460 + doe \div 36524 - doe \div 146096) \div 365
        doy == doe - (365 * yoe + yoe \div 4 - yoe \div 100)
        mp  == (5 * doy + 2) \div 153
        d   == doy - (153 * mp + 2) \div 5 + 1
        m   == IF mp < 10 THEN mp + 3 ELSE mp - 9
        y   == yoe + era * 400 + (IF m <= 2 THEN 1 ELSE 0)
    IN  <<y, m, d>>

\* format(date, 'MMM')
formatMMM(t) ==
    <<"Jan", "Feb", "Mar", "Apr", "May", "Jun",
      "Jul", "Aug", "Sep", "Oct", "Nov", "Dec">>[format(t)[2]]

\* getDay: 0 is Sunday; 1970-01-01 was a Thursday
getDay(t) == (t + 4) % 7

\* getMonth: 0 is January
getMonth(t) == format(t)[2] - 1

getYear(t) == format(t)[1]

addDays(t, amount) == t + amount

\* setDay(date, day) with the default weekStartsOn = 0: the day of the same
\* Sunday-based week for day in 0..6, the next week's Sunday for day = 7
setDay(t, day) == addDays(t, day - getDay(t))

\* subYears(date, 1): the same month and day one year earlier, the day
\* clamped to the month's length (29 February -> 28 February)
subYears(t, amount) ==
    LET c == format(t)
        y == c[1] - amount
        d == IF c[3] > DaysInMonth(y, c[2]) THEN DaysInMonth(y, c[2]) ELSE c[3]
    IN  parseISO(<<y, c[2], d>>)

isAfter(a, b) == a > b

isSameYear(a, b) == getYear(a) = getYear(b)

\* new Date('yyyy-MM-dd').getFullYear(): a date-only string is read as UTC
\* midnight, getFullYear answers in local time; behind UTC that instant is
\* still the evening of the day before
getFullYearOfDateString(s, behind) ==
    IF behind THEN getYear(parseISO(s) - 1) ELSE s[1]

\* {...a, ...b}
Spread(a, b) ==
    [k \in DOMAIN a \cup DOMAIN b |-> IF k \in DOMAIN b THEN b[k] ELSE a[k]]

-----------------------------------------------------------------------------
(* getContributionsForDate, getContributionCountForLastYear,               *)
(* getContributionCountForYear                                             *)

\* Array.prototype.findIndex, 0-based, -1 when no element matches
RECURSIVE FindFrom(_, _, _)
FindFrom(seq, date, i) ==
    IF i > Len(seq) THEN -1
    ELSE IF seq[i].date = date THEN i - 1
    ELSE FindFrom(seq, date, i + 1)

findIndexByDate(contributions, date) == FindFrom(contributions, date, 1)

getContributionsForDate(d, date) ==
    LET i == findIndexByDate(d.contributions, date)
    IN  IF i = -1 THEN <<>> ELSE <<d.contributions[i + 1]>>

\* Array.prototype.slice(begin, end) for 0 <= begin and end <= length; the
\* only negative end the code passes is -1 on an empty array, which slices
\* to the empty array as well
slice(seq, begin, end) ==
    IF begin >= end THEN <<>> ELSE SubSeq(seq, begin + 1, end)

RECURSIVE SumCount(_)
SumCount(seq) ==
    IF seq = <<>> THEN 0 ELSE seq[1].count + SumCount(Tail(seq))

\* a total summed the other way round: from the record of one year before
\* (or the first record) up to today's
getContributionCountFromYearAgo(d, today) ==
    LET contributions == d.contributions
        end    == findIndexByDate(contributions, format(today))
        found  == findIndexByDate(contributions, format(subYears(today, 1)))
        begin  == IF found = -1 THEN 0 ELSE found
    IN  IF end = -1 THEN 0
        ELSE SumCount(slice(contributions, begin, end))

getContributionCountForLastYear(d, today) ==
    LET contributions == d.contributions
        begin  == findIndexByDate(contributions, format(today))
        found  == findIndexByDate(contributions, format(subYears(today, 1)))
        end    == IF found = -1 THEN Len(contributions) - 1 ELSE found
    IN  IF begin = -1 THEN 0
        ELSE SumCount(slice(contributions, begin, end))

RECURSIVE FindYear(_, _, _)
FindYear(years, year, i) ==
    IF i > Len(years) THEN <<>>
    ELSE IF years[i].year = year THEN <<years[i]>>
    ELSE FindYear(years, year, i + 1)

getContributionCountForYear(d, year) ==
    LET yearEntry == FindYear(d.years, year, 1)
    IN  IF yearEntry # <<>> THEN yearEntry[1].total ELSE 0

-----------------------------------------------------------------------------
(* getBlocksForYear *)

Cell(d, date) == [date |-> date, info |-> getContributionsForDate(d, date)]

\* the while loop that collects the first row
RECURSIVE FirstRowDates(_, _, _)
FirstRowDates(d, weekStart, lastDate) ==
    IF weekStart <= lastDate
    THEN <<Cell(d, format(weekStart))>>
         \o FirstRowDates(d, setDay(weekStart, 7), lastDate)
    ELSE <<>>

\* the for loop that fills one column, with its break
RECURSIVE WeekDates(_, _, _, _)
WeekDates(d, dateObj, i, lastDate) ==
    IF i > 6 THEN <<>>
    ELSE LET date == format(setDay(parseISO(dateObj.date), i))
         IN  IF isAfter(parseISO(date), lastDate) THEN <<>>
             ELSE <<Cell(d, date)>> \o WeekDates(d, dateObj, i + 1, lastDate)

\* the first value of weekStart
AnchorWeekStart(firstDate) ==
    IF getDay(firstDate) # 0
    THEN addDays(firstDate, getDay(firstDate))
    ELSE firstDate

getBlocksForYear(year, d, fullYear, today) ==
    LET firstDate == IF fullYear THEN subYears(today, 1)
                     ELSE parseISO(<<year, 1, 1>>)
        lastDate  == IF fullYear THEN today ELSE parseISO(<<year, 12, 31>>)
        firstRowDates == FirstRowDates(d, AnchorWeekStart(firstDate), lastDate)
    IN  [x \in 1..Len(firstRowDates) |->
            WeekDates(d, firstRowDates[x], 0, lastDate)]

-----------------------------------------------------------------------------
(* getMonthLabels *)

\* the reduce over weeks; x is the 0-based column index
RECURSIVE ReduceWeeks(_, _, _, _)
ReduceWeeks(weeks, x, previousMonth, labels) ==
    IF x >= Len(weeks) THEN labels
    ELSE LET firstWeekDay == parseISO(weeks[x + 1][1].date)
             month == getMonth(firstWeekDay) + 1
             monthChanged == month # previousMonth
             firstMonthIsDecember == x = 0 /\ month = 12
         IN  IF monthChanged /\ ~firstMonthIsDecember
             THEN ReduceWeeks(weeks, x + 1, month,
                      Append(labels, [x |-> x, label |-> formatMMM(firstWeekDay)]))
             ELSE ReduceWeeks(weeks, x + 1, previousMonth, labels)

InitialPreviousMonth == 0

getMonthLabels(blocks, fullYear) ==
    LET weeks == slice(blocks, 0,
                       IF fullYear THEN Len(blocks) - 1 ELSE Len(blocks))
    IN  ReduceWeeks(weeks, 0, InitialPreviousMonth, <<>>)

-----------------------------------------------------------------------------
(* getGraphDataForYear *)

getGraphDataForYear(year, d, fullYear, today) ==
    LET blocks == getBlocksForYear(year, d, fullYear, today)
    IN  [year        |-> year,
         blocks      |-> blocks,
         monthLabels |-> getMonthLabels(blocks, fullYear),
         totalCount  |-> IF fullYear
                         THEN getContributionCountForLastYear(d, today)
                         ELSE getContributionCountForYear(d, year)]

-----------------------------------------------------------------------------
(* combineContributions *)

\* the first pass: Map count -> {color, intensity}; a later record with the
\* same count overwrites an earlier one
RECURSIVE BuildTable(_, _, _)
BuildTable(contributions, i, t) ==
    IF i > Len(contributions) THEN t
    ELSE LET contribution == contributions[i]
             entry == [color |-> contribution.color,
                       intensity |-> contribution.intensity]
         IN  BuildTable(contributions, i + 1,
                 [c \in DOMAIN t \cup {contribution.count} |->
                     IF c = contribution.count THEN entry ELSE t[c]])

\* a table in which the first record with a count wins
RECURSIVE BuildTableKeepFirst(_, _, _)
BuildTableKeepFirst(contributions, i, t) ==
    IF i > Len(contributions) THEN t
    ELSE LET contribution == contributions[i]
             entry == [color |-> contribution.color,
                       intensity |-> contribution.intensity]
         IN  BuildTableKeepFirst(contributions, i + 1,
                 [c \in DOMAIN t \cup {contribution.count} |->
                     IF c \in DOMAIN t THEN t[c] ELSE entry])

LookupTableKeepFirst(contributions) ==
    BuildTableKeepFirst(contributions, 1, [c \in {} |-> 0])

LookupTable(contributions) == BuildTable(contributions, 1, [c \in {} |-> 0])

\* contribution.date in gitlabContributions
InGitlab(gitlab, contribution) == contribution.date \in DOMAIN gitlab

\* a merge that replaces the primary count instead of adding to it
MergedCountReplaced(gitlab, contribution) == gitlab[contribution.date]

MergedCount(gitlab, contribution) ==
    contribution.count + gitlab[contribution.date]

\* the record returned when the merged count is a key of the table
TableRecord(contribution, count, t) ==
    Spread(Spread(contribution, [count |-> count]), t[count])

\* the record returned when it is not
OverflowRecord(contribution, count) ==
    Spread(contribution, [count |-> count, color |-> "red"])

\* the callback of the second pass
MergeRecord(gitlab, contribution, t) ==
    IF InGitlab(gitlab, contribution)
    THEN LET count == MergedCount(gitlab, contribution)
         IN  IF count \in DOMAIN t
             THEN TableRecord(contribution, count, t)
             ELSE OverflowRecord(contribution, count)
    ELSE contribution

\* the Map year -> number of touched dates the second pass fills
RECURSIVE TouchedYears(_, _, _, _, _)
TouchedYears(gitlab, contributions, behind, i, years) ==
    IF i > Len(contributions) THEN years
    ELSE IF InGitlab(gitlab, contributions[i])
    THEN LET year == getFullYearOfDateString(contributions[i].date, behind)
         IN  TouchedYears(gitlab, contributions, behind, i + 1,
                 [y \in DOMAIN years \cup {year} |->
                     IF y = year
                     THEN (IF year \in DOMAIN years THEN years[year] + 1 ELSE 1)
                     ELSE years[y]])
    ELSE TouchedYears(gitlab, contributions, behind, i + 1, years)

combineContributions(gitlab, github, behind) ==
    LET t == LookupTable(github.contributions)
        years == TouchedYears(gitlab, github.contributions, behind, 1,
                              [y \in {} |-> 0])
        r == Spread(github,
                 [contributions |->
                     [i \in 1..Len(github.contributions) |->
                         MergeRecord(gitlab, github.contributions[i], t)]])
    IN  Spread(r,
            [years |->
                [j \in 1..Len(github.years) |->
                    Spread(github.years[j],
                        [total |->
                            IF github.years[j].year \in DOMAIN years
                            THEN github.years[j].total + years[github.years[j].year]
                            ELSE github.years[j].total])]])

-----------------------------------------------------------------------------
(* getGitHubGraphData *)

\* a guard that looks at the records instead of the year summaries
NoContributionsAvailable(d) == Len(d.contributions) = 0

\* !data.years.length
NoDataAvailable(d) == Len(d.years) = 0

\* a test that takes every requested year for the current one
IsAnyYear(year, today) == TRUE

\* isSameYear(parseISO(String(year)), new Date()): a year-only string parses
\* to 1 January of that year
IsCurrentYear(year, today) == isSameYear(parseISO(<<year, 1, 1>>), today)

\* years.map(...)
GraphDataForYears(years, d, fullYear, today) ==
    [i \in 1..Len(years) |->
        getGraphDataForYear(years[i], d,
            IsCurrentYear(years[i], today) /\ fullYear, today)]

-----------------------------------------------------------------------------
(* Inputs of the model. *)

Years == FirstYear..(FirstYear + NumYears - 1)

\* the days `now` is drawn from: 1 December of the seventh modelled year
\* onwards, through the turn of the year and the end of February
NowFirst == parseISO(<<FirstYear + 6, 12, 1>>)
NowDays == NowFirst..(NowFirst + NowSpan - 1)

NoContributions == [date \in {} |-> 0]

Range(dateA, dateB) == [start |-> dateA, end |-> dateB]

\* a payload as the service delivers it: newest record first
SampleData ==
    [years |->
        <<[year |-> getYear(NowFirst) + 1, total |-> 3,
           range |-> Range(<<getYear(NowFirst) + 1, 1, 1>>, <<getYear(NowFirst) + 1, 12, 31>>)],
          [year |-> getYear(NowFirst), total |-> 7,
           range |-> Range(<<getYear(NowFirst), 1, 1>>, <<getYear(NowFirst), 12, 31>>)]>>,
     contributions |->
        <<[date |-> format(NowFirst + 31), count |-> 3, color |-> "#7bc96f", intensity |-> 2],
          [date |-> format(NowFirst + 1), count |-> 1, color |-> "#c6e48b", intensity |-> 1],
          [date |-> format(NowFirst), count |-> 0, color |-> "#ebedf0", intensity |-> 0],
          [date |-> format(subYears(NowFirst, 1) + 3), count |-> 6, color |-> "#196127", intensity |-> 4]>>]

-----------------------------------------------------------------------------
(* getGraphDataForYear applied to every year, flag and day. *)

InitBlocks ==
    /\ pc = "call"
    /\ now \in NowDays
    /\ behindUTC = FALSE
    /\ options \in [fullYear : BOOLEAN, years : {<<y>> : y \in Years}]
    /\ githubData = SampleData
    /\ gitlabContributions = NoContributions
    /\ data = SampleData
    /\ result = <<>>
    /\ error = ""

GraphDataForYear ==
    /\ pc = "call"
    /\ result' = <<getGraphDataForYear(options.years[1], data, options.fullYear, now)>>
    /\ pc' = "return"
    /\ UNCHANGED <<now, behindUTC, options, githubData, gitlabContributions,
                   data, error>>

NextBlocks == GraphDataForYear

SpecBlocks == InitBlocks /\ [][NextBlocks]_vars

-----------------------------------------------------------------------------
(* Reading a returned grid. *)

Returned == pc = "return" /\ Len(result) = 1

Blocks == result[1].blocks

Labels == result[1].monthLabels

\* the window the grid was built over
WindowStart ==
    IF options.fullYear THEN subYears(now, 1)
    ELSE parseISO(<<options.years[1], 1, 1>>)

WindowEnd ==
    IF options.fullYear THEN now ELSE parseISO(<<options.years[1], 12, 31>>)

\* the day of a column's first cell, and the month (1..12) it lies in
ColStart(x) == parseISO(Blocks[x][1].date)

ColMonth(x) == format(ColStart(x))[2]

\* the days of all cells, read column by column
RECURSIVE FlatDays(_, _)
FlatDays(blocks, x) ==
    IF x > Len(blocks) THEN <<>>
    ELSE [i \in 1..Len(blocks[x]) |-> parseISO(blocks[x][i].date)]
         \o FlatDays(blocks, x + 1)

\* the number of columns getMonthLabels walks
NumWeeks ==
    IF options.fullYear
    THEN (IF Len(Blocks) = 0 THEN 0 ELSE Len(Blocks) - 1)
    ELSE Len(Blocks)

LabelAt(x) == \E k \in 1..Len(Labels) : Labels[k].x = x

-----------------------------------------------------------------------------
\* C1: for every year, the cells of getBlocksForYear(year, data, false), read
\* column by column, are a partition of the dates 1 January .. 31 December of
\* the year: each date in exactly one cell, no date outside the year, every
\* column of at most 7 cells, only the last column short.
C1_YearPartition ==
    (Returned /\ ~options.fullYear) =>
        LET flat == FlatDays(Blocks, 1)
        IN  /\ Len(flat) = WindowEnd - WindowStart + 1
            /\ {flat[i] : i \in 1..Len(flat)} = WindowStart..WindowEnd
            /\ \A x \in 1..Len(Blocks) : Len(Blocks[x]) <= 7
            /\ \A x \in 1..(Len(Blocks) - 1) : Len(Blocks[x]) = 7

\* the next Sunday on or after a day
SundayOnOrAfter(t) == IF getDay(t) = 0 THEN t ELSE t + (7 - getDay(t))

\* C9: the first cell of every column is a Sunday, the column starts are
\* exactly the Sundays from the anchor to the window end, 7 days apart, the
\* anchor being the window start when it is a Sunday and else the next Sunday
\* after it; no cell is dated before the window start.
C9_SundayAnchor ==
    Returned =>
        LET anchor == SundayOnOrAfter(WindowStart)
            flat   == FlatDays(Blocks, 1)
        IN  /\ \A x \in 1..Len(Blocks) : getDay(ColStart(x)) = 0
            /\ \A x \in 1..Len(Blocks) : ColStart(x) = anchor + 7 * (x - 1)
            /\ Len(Blocks) = (IF anchor > WindowEnd THEN 0
                              ELSE (WindowEnd - anchor) \div 7 + 1)
            /\ \A i \in 1..Len(flat) : flat[i] >= WindowStart

\* C6: no label at column 0 when its first date is in December; at every
\* later column a label is emitted exactly when the month of its first cell
\* differs from that of the previous column's first cell; label indices are
\* strictly increasing.
C6_LabelPerTransition ==
    Returned =>
        /\ (NumWeeks > 0 /\ ColMonth(1) = 12) => ~LabelAt(0)
        /\ \A x \in 1..(NumWeeks - 1) :
               LabelAt(x) <=> ColMonth(x + 1) # ColMonth(x)
        /\ \A k \in 1..(Len(Labels) - 1) : Labels[k].x < Labels[k + 1].x

\* C10: the previous-month tracker starts at January, so for a grid whose
\* column 0 starts in January no label is emitted before the first column
\* whose first cell is in another month.
C10_NoLabelWhileJanuary ==
    (Returned /\ NumWeeks > 0 /\ ColMonth(1) = 1) =>
        \A k \in 1..Len(Labels) :
            \E x \in 0..Labels[k].x : ColMonth(x + 1) # 1

-----------------------------------------------------------------------------
(* combineContributions applied to every small primary series, secondary   *)
(* mapping and time zone side.                                             *)

\* the last day of a year, the first day of the next, and a day inside it
CombineDates ==
    {<<getYear(NowFirst), 12, 31>>, <<getYear(NowFirst) + 1, 1, 1>>,
     <<getYear(NowFirst) + 1, 6, 1>>}

Styles ==
    {[color |-> "#c6e48b", intensity |-> 1], [color |-> "#196127", intensity |-> 4]}

Records(dates, counts) ==
    {[date |-> d, count |-> c, color |-> s.color, intensity |-> s.intensity] :
        d \in dates, c \in counts, s \in Styles}

\* the series of n records with pairwise different dates, in any order
Series(dates, counts, n) ==
    {q \in [1..n -> Records(dates, counts)] :
        \A i, j \in 1..n : i < j => q[i].date # q[j].date}

SeriesUpTo(dates, counts, n) == UNION {Series(dates, counts, k) : k \in 0..n}

Secondaries ==
    UNION {[S -> 1..MaxAdd] : S \in SUBSET CombineDates}

YearSummary(year, total) ==
    [year |-> year, total |-> total,
     range |-> Range(<<year, 1, 1>>, <<year, 12, 31>>)]

YearLists ==
    {<<>>,
     <<YearSummary(getYear(NowFirst), 20)>>,
     <<YearSummary(getYear(NowFirst) + 1, 10), YearSummary(getYear(NowFirst), 20)>>}

InitCombine ==
    /\ pc = "call"
    /\ now = NowFirst
    /\ behindUTC \in BOOLEAN
    /\ options = [fullYear |-> FALSE, years |-> <<>>]
    /\ githubData \in
           [years : YearLists,
            contributions : SeriesUpTo(CombineDates, 0..MaxCount, MaxLen)]
    /\ gitlabContributions \in Secondaries
    /\ data = [years |-> <<>>, contributions |-> <<>>]
    /\ result = <<>>
    /\ error = ""

Combine ==
    /\ pc = "call"
    /\ data' = combineContributions(gitlabContributions, githubData, behindUTC)
    /\ pc' = "return"
    /\ UNCHANGED <<now, behindUTC, options, githubData, gitlabContributions,
                   result, error>>

NextCombine == Combine

SpecCombine == InitCombine /\ [][NextCombine]_vars

-----------------------------------------------------------------------------
(* Reading a merge. *)

Primary == githubData.contributions

Merged == data.contributions

Touched(i) == Primary[i].date \in DOMAIN gitlabContributions

\* the count is the count of some primary record
Observed(count) == \E j \in 1..Len(Primary) : Primary[j].count = count

\* the last primary record with the count
LastWith(count) ==
    Primary[CHOOSE j \in 1..Len(Primary) :
                /\ Primary[j].count = count
                /\ \A k \in (j + 1)..Len(Primary) : Primary[k].count # count]

\* C2: the merged contributions have the length and the date order of the
\* primary series; a record whose date is a key of the secondary mapping has
\* count = primary count + secondary count, any other record is the primary
\* record unchanged.
C2_MergedCounts ==
    pc = "return" =>
        /\ Len(Merged) = Len(Primary)
        /\ \A i \in 1..Len(Primary) :
               /\ Merged[i].date = Primary[i].date
               /\ Touched(i) =>
                      Merged[i].count =
                          Primary[i].count + gitlabContributions[Primary[i].date]
               /\ ~Touched(i) => Merged[i] = Primary[i]

\* reached: one record merged and one passed through
C2_Witness ==
    /\ pc = "return"
    /\ \E i, j \in 1..Len(Primary) :
           /\ Touched(i) /\ Merged[i].count > Primary[i].count
           /\ ~Touched(j) /\ Merged[j] = Primary[j]

\* C3 as stated: a merged record whose count is the count of some primary
\* record takes the color and intensity recorded for that count; one whose
\* count is no primary record's count has the overflow color and no
\* intensity value.
C3_OverflowHasNoIntensity ==
    pc = "return" =>
        \A i \in 1..Len(Primary) :
            Touched(i) =>
                IF Observed(Merged[i].count)
                THEN /\ Merged[i].color = LastWith(Merged[i].count).color
                     /\ Merged[i].intensity = LastWith(Merged[i].count).intensity
                ELSE /\ Merged[i].color = "red"
                     /\ "intensity" \notin DOMAIN Merged[i]

\* C3 as amended: a merged record whose count is the count of some primary
\* record takes the color and intensity of the last primary record with that
\* count; one whose count is no primary record's count has the overflow color
\* and keeps the intensity of its own primary record.
C3_OverflowKeepsIntensity ==
    pc = "return" =>
        \A i \in 1..Len(Primary) :
            Touched(i) =>
                IF Observed(Merged[i].count)
                THEN /\ Merged[i].color = LastWith(Merged[i].count).color
                     /\ Merged[i].intensity = LastWith(Merged[i].count).intensity
                ELSE /\ Merged[i].color = "red"
                     /\ DOMAIN Merged[i] = DOMAIN Primary[i]
                     /\ Merged[i].intensity = Primary[i].intensity

\* reached: one merge falls outside the observed counts and keeps its
\* intensity, another lands on an observed count and is recolored
C3_Witness ==
    /\ pc = "return"
    /\ \E i, j \in 1..Len(Primary) :
           /\ Touched(i) /\ ~Observed(Merged[i].count)
           /\ Merged[i].color = "red" /\ Merged[i].intensity = Primary[i].intensity
           /\ Touched(j) /\ Observed(Merged[j].count)
           /\ Merged[j].color # Primary[j].color

\* the primary records dated in a year whose date the secondary mapping has
TouchedIn(year) ==
    {i \in 1..Len(Primary) : Touched(i) /\ Primary[i].date[1] = year}

\* C4: every YearSummary keeps its year and range, and its total grows by the
\* number of primary records dated in that year whose date is a key of the
\* secondary mapping; the sequence of years keeps its length and order.
C4_TotalPerTouchedDate ==
    pc = "return" =>
        /\ Len(data.years) = Len(githubData.years)
        /\ \A j \in 1..Len(githubData.years) :
               /\ data.years[j].year = githubData.years[j].year
               /\ data.years[j].range = githubData.years[j].range
               /\ data.years[j].total =
                      githubData.years[j].total
                          + Cardinality(TouchedIn(githubData.years[j].year))

-----------------------------------------------------------------------------
(* getContributionCountForLastYear applied to every small series, in any   *)
(* order, around today and the day one year before.                        *)

\* 1 December, and the day 90 days on (29 February in a leap year)
CountDays == {NowFirst, NowFirst + 90}

\* today, the day before, the day after, one year before today, and the day
\* before that
CountDates(today) ==
    {format(today), format(today - 1), format(today + 1),
     format(subYears(today, 1)), format(subYears(today, 1) - 1)}

InitCount ==
    /\ pc = "call"
    /\ now \in CountDays
    /\ behindUTC = FALSE
    /\ options = [fullYear |-> TRUE, years |-> <<getYear(now)>>]
    /\ githubData = [years |-> <<>>, contributions |-> <<>>]
    /\ gitlabContributions = NoContributions
    /\ \E q \in SeriesUpTo(CountDates(now), 0..MaxCount, MaxLen) :
           /\ \A i \in 1..Len(q) : q[i].intensity = 1
           /\ data = [years |-> <<>>, contributions |-> q]
    /\ result = <<>>
    /\ error = ""

CountForLastYear ==
    /\ pc = "call"
    /\ result' = <<getContributionCountForLastYear(data, now)>>
    /\ pc' = "return"
    /\ UNCHANGED <<now, behindUTC, options, githubData, gitlabContributions,
                   data, error>>

NextCount == CountForLastYear

SpecCount == InitCount /\ [][NextCount]_vars

-----------------------------------------------------------------------------
(* Reading a rolling total. *)

Contribs == data.contributions

\* the 0-based indices of the records with a date (at most one: dates are
\* unique in a series)
IndicesOf(date) == {i \in 0..(Len(Contribs) - 1) : Contribs[i + 1].date = date}

TodayIdx == CHOOSE i \in IndicesOf(format(now)) : TRUE

YearAgoDate == format(subYears(now, 1))

YearAgoIdx == CHOOSE i \in IndicesOf(YearAgoDate) : TRUE

\* the sum of count over a set of 0-based indices
RECURSIVE SumOver(_)
SumOver(I) ==
    IF I = {} THEN 0
    ELSE LET i == CHOOSE k \in I : TRUE
         IN  Contribs[i + 1].count + SumOver(I \ {i})

Ascending ==
    \A i \in 1..(Len(Contribs) - 1) :
        parseISO(Contribs[i].date) < parseISO(Contribs[i + 1].date)

\* C5 as stated: 0 when no record is dated today; otherwise the sum of count
\* from the index of the record dated one year before today (the oldest
\* record when there is none) up to, not including, the index of today's
\* record - for a series in ascending date order.
C5_SumFromYearAgoToToday ==
    (pc = "return" /\ Ascending) =>
        result[1] =
            IF IndicesOf(format(now)) = {} THEN 0
            ELSE LET from == IF IndicesOf(YearAgoDate) = {} THEN 0 ELSE YearAgoIdx
                 IN  SumOver({i \in 0..(Len(Contribs) - 1) :
                                  from <= i /\ i < TodayIdx})

\* C5 as amended: 0 when no record is dated today; otherwise the sum of count
\* from the index of today's record (included) up to, not including, the
\* index of the record dated one year before today, or the last index of the
\* sequence when there is no such record; the slice is empty when that index
\* does not lie after today's.
C5_SumFromTodayToYearAgo ==
    pc = "return" =>
        result[1] =
            IF IndicesOf(format(now)) = {} THEN 0
            ELSE LET to == IF IndicesOf(YearAgoDate) = {}
                           THEN Len(Contribs) - 1 ELSE YearAgoIdx
                 IN  SumOver({i \in 0..(Len(Contribs) - 1) :
                                  TodayIdx <= i /\ i < to})

\* reached: a series with the newest record first; today's record and
\* yesterday's count, the record of one year before does not
C5_Witness ==
    /\ pc = "return"
    /\ IndicesOf(format(now)) # {} /\ IndicesOf(YearAgoDate) # {}
    /\ TodayIdx = 0 /\ YearAgoIdx = 2 /\ Contribs[2].date = format(now - 1)
    /\ Contribs[1].count > 0 /\ Contribs[2].count > 0 /\ Contribs[3].count > 0
    /\ result[1] = Contribs[1].count + Contribs[2].count

-----------------------------------------------------------------------------
(* The request: getGitHubGraphData from the call to the settled promise.   *)

\* the day after NowFirst, and 1 January of the next year
RequestDays == {NowFirst + 1, NowFirst + 31}

\* the years a request may name: the year of NowFirst, the one before and
\* the one after, so that both request days have their current year there
RequestYearPool == (getYear(NowFirst) - 1)..(getYear(NowFirst) + 1)

RequestedYears ==
    UNION {[1..n -> RequestYearPool] : n \in 0..MaxYears}

EmptyData == [years |-> <<>>, contributions |-> <<>>]

\* what the GitHub calendar service may answer
GitHubPayloads ==
    {EmptyData,
     [years |-> <<>>, contributions |-> SampleData.contributions],
     SampleData}

\* what GitLab may answer
GitLabPayloads ==
    {NoContributions,
     [d \in {format(NowFirst + 31), format(NowFirst + 1), format(NowFirst + 5)} |->
         IF d = format(NowFirst + 1) THEN 2 ELSE 1]}

Init ==
    /\ pc = "start"
    /\ now \in RequestDays
    /\ behindUTC \in BOOLEAN
    /\ options \in [fullYear : BOOLEAN, years : RequestedYears]
    /\ githubData = EmptyData
    /\ gitlabContributions = NoContributions
    /\ data = EmptyData
    /\ result = <<>>
    /\ error = ""

\* the first await returns: the GitHub payload is there, the GitLab fetch starts
GitHubResponds ==
    /\ pc = "start"
    /\ githubData' \in GitHubPayloads
    /\ pc' = "awaitGitLab"
    /\ UNCHANGED <<now, behindUTC, options, gitlabContributions, data, result,
                   error>>

\* the second await returns: merge, test for data, build one GraphData per year
GitLabResponds ==
    /\ pc = "awaitGitLab"
    /\ gitlabContributions' \in GitLabPayloads
    /\ data' = combineContributions(gitlabContributions', githubData, behindUTC)
    /\ IF NoDataAvailable(data')
       THEN /\ error' = "No data available"
            /\ pc' = "rejected"
            /\ result' = result
       ELSE /\ result' = GraphDataForYears(options.years, data', options.fullYear, now)
            /\ pc' = "resolved"
            /\ error' = error
    /\ UNCHANGED <<now, behindUTC, options, githubData>>

\* a fetch, or the parsing of its body, throws: the error goes to the caller
FetchFails ==
    /\ pc \in {"start", "awaitGitLab"}
    /\ pc' = "fetchFailed"
    /\ error' = "fetch failed"
    /\ UNCHANGED <<now, behindUTC, options, githubData, gitlabContributions,
                   data, result>>

Next == GitHubResponds \/ GitLabResponds \/ FetchFails

Spec == Init /\ [][Next]_vars

-----------------------------------------------------------------------------
\* C7: once both fetches have returned there are two outcomes: with no
\* YearSummary in the merged series the request rejects with 'No data
\* available' and yields no result; otherwise it resolves to one GraphData
\* per requested year, in request order, each with the requested year.
C7_RejectOrOnePerYear ==
    /\ pc \in {"start", "awaitGitLab", "fetchFailed", "rejected", "resolved"}
    /\ pc \in {"rejected", "resolved"} =>
           IF Len(data.years) = 0
           THEN /\ pc = "rejected"
                /\ error = "No data available"
                /\ result = <<>>
           ELSE /\ pc = "resolved"
                /\ error = ""
                /\ Len(result) = Len(options.years)
                /\ \A i \in 1..Len(options.years) :
                       result[i].year = options.years[i]

\* reached: records but no year summary, two years requested, a rejection
C7_Witness ==
    /\ pc = "rejected"
    /\ error = "No data available"
    /\ Len(options.years) = 2
    /\ Len(data.contributions) > 0
    /\ result = <<>>

\* C8: with fullYear = true, the GraphData of every requested year other than
\* the current year is the one fullYear = false produces on the same data:
\* calendar-year blocks, labels over all columns, the year's total.
C8_FullYearInertForOtherYears ==
    (pc = "resolved" /\ options.fullYear) =>
        \A i \in 1..Len(options.years) :
            options.years[i] # getYear(now) =>
                result[i] = getGraphDataForYear(options.years[i], data, FALSE, now)

\* reached: fullYear = true, the current year and another year requested, and
\* only the current year's grid is the rolling one
C8_Witness ==
    /\ pc = "resolved" /\ options.fullYear /\ Len(options.years) = 2
    /\ options.years[1] = getYear(now) /\ options.years[2] # getYear(now)
    /\ result[1] # getGraphDataForYear(options.years[1], data, FALSE, now)
    /\ result[2] = getGraphDataForYear(options.years[2], data, FALSE, now)
    /\ result[2] # getGraphDataForYear(options.years[2], data, TRUE, now)

=============================================================================
